---- MODULE Spec2Model ----
(***************************************************************************)
(* Model of sim_energy_system_cap.py: a solar-charged capacitor node with  *)
(* a switched load, stepped with a fixed time step, logging (t, volts).    *)
(*                                                                         *)
(* Numbers.  The script computes with Python floats.  Here every quantity  *)
(* is a fixed-point integer: the integer x stands for the value x / SCALE  *)
(* (SCALE = 1000, so volts are millivolts, amperes milliamperes, ...).     *)
(* Mul, Div and Sqrt round to the nearest representable value, as float    *)
(* arithmetic does at its own resolution.  Python raises on float division *)
(* by zero and on math.sqrt of a negative number; both are modelled as the *)
(* uncaught exception that ends the process.                               *)
(***************************************************************************)
EXTENDS Integers, Sequences, FiniteSets

VARIABLES
    argv,        \* sys.argv[1:], the command-line parameters (fixed point)
    pc,          \* position in the script
    isc_a,       \* short-circuit current
    i1_a,        \* source current
    qt_c,        \* capacitor charge
    p_mode_w,    \* effective load power
    t_s,         \* elapsed time
    node_discr,  \* discriminant last computed (the value handed to math.sqrt)
    node_v,      \* node voltage
    log,         \* list of [t_s, node_v] samples
    exc,         \* uncaught exception, if any
    stdout,      \* what was printed
    exit_status, \* process exit status once the process has ended
    outfile      \* rows of ./log.csv; empty while the file has not been written

vars == <<argv, pc, isc_a, i1_a, qt_c, p_mode_w, t_s, node_discr, node_v, log,
          exc, stdout, exit_status, outfile>>

----------------------------------------------------------------------------
(* Fixed-point arithmetic *)

SCALE == 1000

\* A name that is not bound yet (Python would raise NameError on a read).
Unbound == "unbound"

\* No exception / process still running.
None == "None"

\* float * float, rounded to nearest.
Mul(x, y) == (x * y + SCALE \div 2) \div SCALE

\* float / float (y # 0), rounded to nearest.
Div(x, y) == IF y > 0 THEN (2 * x * SCALE + y) \div (2 * y)
                      ELSE (2 * (0 - x) * SCALE + (0 - y)) \div (2 * (0 - y))

RECURSIVE SqrtIter(_, _, _)
\* Largest r in lo..hi with r*r <= n.
SqrtIter(n, lo, hi) ==
    IF lo >= hi THEN lo
    ELSE LET mid == (lo + hi + 1) \div 2
         IN  IF mid * mid <= n THEN SqrtIter(n, mid, hi)
                               ELSE SqrtIter(n, lo, mid - 1)

\* math.sqrt(x) for x >= 0, rounded to nearest.
Sqrt(x) ==
    LET n == x * SCALE
        f == SqrtIter(n, 0, 46340)
    IN  IF n - f * f > f THEN f + 1 ELSE f

----------------------------------------------------------------------------
(* Constants and parameters of the script *)

\* irr_w_m2 = 1366.1
irr_w_m2 == 1366100

sa_m2    == argv[1]
eff      == argv[2]
voc      == argv[3]
c_f      == argv[4]
r_esr    == argv[5]
q0_c     == argv[6]
p_on_w   == argv[7]
v_thresh == argv[8]
dt_s     == argv[9]
dur_s    == argv[10]

----------------------------------------------------------------------------
(* User-defined functions of the script *)

\* irr_w_m2 * sa_m2 * eff / voc   (voc # 0)
solar_current(irr, sa, ef, vo) == Div(Mul(Mul(irr, sa), ef), vo)

\* (q_c / c_f + i_a * esr_ohm)**2 - 4 * power_w * esr_ohm
node_discrim(q_c, cf, i_a, esr_ohm, power_w) ==
    LET a == Div(q_c, cf) + Mul(i_a, esr_ohm)
    IN  Mul(a, a) - Mul(4 * power_w, esr_ohm)

\* Variant: the smaller root of the quadratic ("-" for "+").
node_voltage_smaller_root(q_c, cf, i_a, esr_ohm, disc) ==
    LET s == Div(q_c, cf) + Mul(i_a, esr_ohm) - Sqrt(disc)
    IN  (s + 1) \div 2

\* Variant: the division by 2 is missing.
node_voltage_undivided(q_c, cf, i_a, esr_ohm, disc) ==
    Div(q_c, cf) + Mul(i_a, esr_ohm) + Sqrt(disc)

\* (q_c / c_f + i_a * esr_ohm + math.sqrt(disc)) / 2   (disc >= 0)
node_voltage(q_c, cf, i_a, esr_ohm, disc) ==
    LET s == Div(q_c, cf) + Mul(i_a, esr_ohm) + Sqrt(disc)
    IN  (s + 1) \div 2

----------------------------------------------------------------------------
(* Statements of the main body, as operators *)

\* log[-1][0] < dur_s
LoopCond == log[Len(log)][1] < dur_s

\* Variant: the clamp is missing.
ClampChargeMissing(q) == q

\* if qt_c < 0.0: qt_c = 0.0
ClampCharge(q) == IF q < 0 THEN 0 ELSE q

\* Variant: the load comes back at the cutoff threshold (no hysteresis band).
LoadReenableAtThreshold(p, v) == IF p = 0 /\ v >= v_thresh THEN p_on_w ELSE p

\* if p_mode_w == 0.0 and node_v >= voc: p_mode_w = p_on_w
LoadReenable(p, v) == IF p = 0 /\ v >= voc THEN p_on_w ELSE p

\* Variant: the source current falls off linearly towards voc.
SourceReconnectDerated(v) ==
    IF 0 <= v /\ v < voc THEN Div(Mul(isc_a, voc - v), voc) ELSE 0

\* i1_a = isc_a if 0 <= node_v < voc else 0.0
SourceReconnect(v) == IF 0 <= v /\ v < voc THEN isc_a ELSE 0

\* Variant: the disconnect rule is missing.
SourceDisconnectMissing(v, i) == i

\* if voc <= node_v and i1_a != 0.0: i1_a = 0.0
SourceDisconnect(v, i) == IF voc <= v /\ i # 0 THEN 0 ELSE i

\* Variant: the cutoff rule is missing.
LoadCutoffMissing(v, p) == p

\* if node_v < v_thresh: p_mode_w = 0.0
LoadCutoff(v, p) == IF v < v_thresh THEN 0 ELSE p

\* Variant: a negative discriminant is not recovered from.
RecoverMissing(d, p) == p

\* if(node_discr<0.0): p_mode_w = 0.0
Recover(d, p) == IF d < 0 THEN 0 ELSE p

\* Variant: the increment is missing.
AdvanceTimeMissing(t) == t

\* t_s += dt_s
AdvanceTime(t) == t + dt_s

\* Variant: the sample is stamped with the time after the increment.
RecordAfterAdvance(l, t, v) == Append(l, <<t + dt_s, v>>)

\* log.append([t_s, node_v])
Record(l, t, v) == Append(l, <<t, v>>)

\* Variant: the samples recorded so far are flushed to log.csv on the way out.
UncaughtFlushes(e) ==
    /\ pc' = "error"
    /\ exc' = e
    /\ exit_status' = 1
    /\ outfile' = <<(<<"t_s", "volts">>)>> \o log
    /\ UNCHANGED stdout

\* An exception nobody catches: traceback, exit status 1, the writer at the
\* end of the script is never reached.
Uncaught(e) ==
    /\ pc' = "error"
    /\ exc' = e
    /\ exit_status' = 1
    /\ UNCHANGED <<stdout, outfile>>

\* The header row and one row per sample.
CsvRows(l) == <<(<<"t_s", "volts">>)>> \o l

----------------------------------------------------------------------------
(* Inputs *)

\* Longest simulated duration, in seconds.
MaxDur == 12

\* The scenario of the specification:
\* sa_m2=1.0 eff=0.2 voc=5.0 c_f=0.01 r_esr=0.1 q0_c=0.0 p_on_w=0.5
\* v_thresh=3.0 dt_s=1.0 dur_s=5.0
Scenario == <<1000, 200, 5000, 10, 100, 0, 500, 3000, 1000, 5000>>

\* No source, 5 C on 1 F, a 62 W load: the load is re-enabled at voc and the
\* loaded node then solves to less than v_thresh.
Bounce == <<0, 200, 5000, 1000, 100, 5000, 62000, 3000, 1000, MaxDur * SCALE>>

\* A 1000 W load on an empty 1 F capacitor: the first discriminant is
\* negative.
Overload == <<10, 200, 5000, 1000, 100, 0, 1000000, 3000, 1000, MaxDur * SCALE>>

\* Efficiency 1.5, outside [0,1].
BadEfficiency == <<10, 1500, 5000, 1000, 100, 0, 0, 3000, 1000, 2000>>

\* Duration -1 s.
NegativeDuration == <<10, 200, 5000, 1000, 100, 4000, 0, 3000, 1000, 0 - 1000>>

\* Capacitance 0 F.
ZeroCapacitance == <<10, 200, 5000, 0, 100, 4000, 0, 3000, 1000, 2000>>

\* Time step 2 s, duration 5 s: the duration is no multiple of the step.
OddStep == <<10, 200, 5000, 1000, 100, 4000, 0, 3000, 2000, 5000>>

\* The scenario's array on a capacitor that starts 1 mC below empty, no load:
\* the first solve is above voc although the charge is negative.
NegativeStart == <<1000, 200, 5000, 10, 100, 0 - 1, 0, 3000, 1000, 2000>>

SaSet      == {0, 10}
EffSet     == {200}
VocSet     == {0, 5000}
CapSet     == {100, 1000}
EsrSet     == {0, 100}
Q0Set      == {0 - 400, 0, 4000}
POnSet     == {0, 500, 10000}
VThreshSet == {0, 3000}
DtSet      == {1000}
DurSet     == {0, MaxDur * SCALE}

Argvs ==
    { <<sa, ef, vo, cf, re, q0, po, vt, dt, du>> :
        sa \in SaSet, ef \in EffSet, vo \in VocSet, cf \in CapSet,
        re \in EsrSet, q0 \in Q0Set, po \in POnSet, vt \in VThreshSet,
        dt \in DtSet, du \in DurSet }
    \cup {Scenario, Bounce, Overload}
    \cup {BadEfficiency, NegativeDuration, ZeroCapacitance, OddStep, NegativeStart}
    \cup {<<>>, SubSeq(Scenario, 1, 9), Scenario \o <<0>>}

----------------------------------------------------------------------------
(* The script *)

Init ==
    /\ argv \in Argvs
    /\ pc = "args"
    /\ isc_a = Unbound
    /\ i1_a = Unbound
    /\ qt_c = Unbound
    /\ p_mode_w = Unbound
    /\ t_s = Unbound
    /\ node_discr = Unbound
    /\ node_v = Unbound
    /\ log = <<>>
    /\ exc = None
    /\ stdout = <<>>
    /\ exit_status = None
    /\ outfile = <<>>

\* lines 66-76: ten parameters given
ParseArgs ==
    /\ pc = "args"
    /\ Len(argv) + 1 = 11
    /\ pc' = "init"
    /\ UNCHANGED <<argv, isc_a, i1_a, qt_c, p_mode_w, t_s, node_discr, node_v,
                   log, exc, stdout, exit_status, outfile>>

\* lines 77-80: usage message and sys.exit()
Usage ==
    /\ pc = "args"
    /\ Len(argv) + 1 # 11
    /\ pc' = "exit"
    /\ stdout' = Append(stdout, "Usage: sim_energy_system_cap.py sa_m2 eff voc c_f r_esr q0_c p_on_w v_thresh dt_s dur_s")
    /\ exit_status' = 0
    /\ UNCHANGED <<argv, isc_a, i1_a, qt_c, p_mode_w, t_s, node_discr, node_v,
                   log, exc, outfile>>

\* line 85 with voc == 0: the division in solar_current raises
InitSolarCurrentRaises ==
    /\ pc = "init"
    /\ voc = 0
    /\ Uncaught("ZeroDivisionError")
    /\ UNCHANGED <<argv, isc_a, i1_a, qt_c, p_mode_w, t_s, node_discr, node_v, log>>

\* lines 85-92 with c_f == 0: the division q_c / c_f in node_discrim raises
InitCapacitanceRaises ==
    /\ pc = "init"
    /\ voc # 0
    /\ c_f = 0
    /\ Uncaught("ZeroDivisionError")
    /\ isc_a' = solar_current(irr_w_m2, sa_m2, eff, voc)
    /\ i1_a' = isc_a'
    /\ qt_c' = q0_c
    /\ p_mode_w' = p_on_w
    /\ t_s' = 0
    /\ UNCHANGED <<argv, node_discr, node_v, log>>

\* lines 85-93 with a negative first discriminant: math.sqrt raises
InitSqrtRaises ==
    /\ pc = "init"
    /\ voc # 0
    /\ c_f # 0
    /\ Uncaught("ValueError")
    /\ LET isc == solar_current(irr_w_m2, sa_m2, eff, voc)
           d   == node_discrim(q0_c, c_f, isc, r_esr, p_on_w)
       IN  /\ d < 0
           /\ isc_a' = isc
           /\ i1_a' = isc
           /\ qt_c' = q0_c
           /\ p_mode_w' = p_on_w
           /\ t_s' = 0
           /\ node_discr' = d
    /\ UNCHANGED <<argv, node_v, log>>

\* lines 85-100: initial values, first solve, first sample, mode switches
Initialize ==
    /\ pc = "init"
    /\ voc # 0
    /\ c_f # 0
    /\ pc' = "loop"
    /\ LET isc == solar_current(irr_w_m2, sa_m2, eff, voc)
           d   == node_discrim(q0_c, c_f, isc, r_esr, p_on_w)
           v   == node_voltage(q0_c, c_f, isc, r_esr, d)
       IN  /\ d >= 0
           /\ isc_a' = isc
           /\ qt_c' = q0_c
           /\ t_s' = 0
           /\ node_discr' = d
           /\ node_v' = v
           /\ log' = <<(<<0, v>>)>>
           /\ i1_a' = SourceDisconnect(v, isc)
           /\ p_mode_w' = LoadCutoff(v, p_on_w)
    /\ UNCHANGED <<argv, exc, stdout, exit_status, outfile>>

\* line 104 with node_v == 0: the float division raises
StepDivisionRaises ==
    /\ pc = "loop"
    /\ LoopCond
    /\ node_v = 0
    /\ Uncaught("ZeroDivisionError")
    /\ UNCHANGED <<argv, isc_a, i1_a, qt_c, p_mode_w, t_s, node_discr, node_v, log>>

\* lines 103-129: one iteration of the loop
Step ==
    /\ pc = "loop"
    /\ LoopCond
    /\ node_v # 0
    /\ LET i3_a == Div(p_mode_w, node_v)
           q    == ClampCharge(qt_c + Mul(i1_a - i3_a, dt_s))
           p1   == LoadReenable(p_mode_w, node_v)
           i1   == SourceReconnect(node_v)
           d1   == node_discrim(q, c_f, i1, r_esr, p1)
           p2   == Recover(d1, p1)
           d2   == IF d1 < 0 THEN node_discrim(q, c_f, i1, r_esr, p2) ELSE d1
           v    == node_voltage(q, c_f, i1, r_esr, d2)
       IN  /\ qt_c' = q
           /\ node_discr' = d2
           /\ node_v' = v
           /\ i1_a' = SourceDisconnect(v, i1)
           /\ p_mode_w' = LoadCutoff(v, p2)
           /\ log' = Record(log, t_s, v)
           /\ t_s' = AdvanceTime(t_s)
    /\ UNCHANGED <<argv, pc, isc_a, exc, stdout, exit_status, outfile>>

\* lines 103, 131-137: the loop ends and log.csv is written
WriteLog ==
    /\ pc = "loop"
    /\ ~LoopCond
    /\ pc' = "done"
    /\ outfile' = CsvRows(log)
    /\ exit_status' = 0
    /\ UNCHANGED <<argv, isc_a, i1_a, qt_c, p_mode_w, t_s, node_discr, node_v,
                   log, exc, stdout>>

Next ==
    \/ ParseArgs
    \/ Usage
    \/ InitSolarCurrentRaises
    \/ InitCapacitanceRaises
    \/ InitSqrtRaises
    \/ Initialize
    \/ StepDivisionRaises
    \/ Step
    \/ WriteLog

Spec == Init /\ [][Next]_vars

----------------------------------------------------------------------------
(* Vocabulary of the properties *)

\* node_v holds a solved voltage (it is bound from the first sample on).
VoltBound == pc \in {"loop", "done"} \/ (pc = "error" /\ Len(log) >= 1)

\* node_discr and qt_c are bound (from line 92 on, also when line 93 raises).
DiscrBound == VoltBound \/ (pc = "error" /\ exc = "ValueError")

\* The loop test has passed: an iteration is about to execute line 104.
StepBegins == pc = "loop" /\ LoopCond

\* A physically meaningful configuration: positive capacitance and
\* open-circuit voltage, nothing negative.
NonNegativeConfig ==
    /\ c_f > 0 /\ voc > 0 /\ q0_c >= 0 /\ r_esr >= 0 /\ p_on_w >= 0
    /\ sa_m2 >= 0 /\ eff >= 0 /\ v_thresh >= 0

\* Voltage of the k-th sample counted from the end of the trace (0 = last).
SampleV(k) == log[Len(log) - k][2]

\* Time stamps of the trace.
SampleT(i) == log[i][1]

----------------------------------------------------------------------------
(* Properties *)

\* C1 (as claimed): with dt_s > 0 and dur_s >= 0 the time column starts at 0,
\* consecutive samples differ by exactly dt_s, and once the run is complete
\* the last sample is the first one whose time is >= dur_s.
C1_TimeColumnArithmetic ==
    (Len(log) >= 1 /\ dt_s > 0 /\ dur_s >= 0) =>
        /\ SampleT(1) = 0
        /\ \A i \in 1..(Len(log) - 1) : SampleT(i + 1) = SampleT(i) + dt_s
        /\ pc = "done" =>
              /\ SampleT(Len(log)) >= dur_s
              /\ \A i \in 1..(Len(log) - 1) : SampleT(i) < dur_s

\* C2 (as claimed, read on configurations without negative parameters): at
\* every node-voltage solve, the initial one included, the discriminant handed
\* to the square root is non-negative and the node voltage that results is
\* non-negative.
C2_SolveNonNegative ==
    /\ (DiscrBound /\ NonNegativeConfig) => node_discr >= 0
    /\ (VoltBound /\ NonNegativeConfig) => node_v >= 0

\* C3 (as claimed): when the discriminant of the very first solve is negative,
\* the run does not fail: the load is forced off and a first sample is
\* recorded with the load off.
C3_FirstSolveRecovers ==
    (/\ pc \in {"loop", "done", "error"}
     /\ NonNegativeConfig
     /\ node_discrim(q0_c, c_f, solar_current(irr_w_m2, sa_m2, eff, voc),
                     r_esr, p_on_w) < 0)
    => (pc # "error" /\ Len(log) >= 1 /\ (Len(log) = 1 => p_mode_w = 0))

\* C4 (as claimed): whenever a step begins, the node voltage it divides by is
\* strictly greater than zero.
C4_StepVoltagePositive ==
    (StepBegins /\ NonNegativeConfig) => node_v > 0

\* C4 (amended): whenever a step begins, the node voltage it divides by is
\* greater than or equal to zero (zero is reached, e.g. after a step that
\* clamped the charge to zero with the source disconnected).
C4_StepVoltageNonNegative ==
    (StepBegins /\ NonNegativeConfig) => node_v >= 0

\* C4 witness: a step begins at exactly 0 V after an earlier step clamped the
\* charge to zero while the source was disconnected.
C4_Witness ==
    /\ StepBegins /\ NonNegativeConfig
    /\ Len(log) >= 2
    /\ SampleV(1) >= voc
    /\ qt_c = 0 /\ i1_a = 0
    /\ node_v = 0

\* C5: a step that begins with node voltage exactly zero ends the run with
\* ZeroDivisionError; nothing runs after the error and log.csv is not written.
C5_ZeroVoltageIsFatal ==
    [][ /\ pc # "error"
        /\ (pc = "loop" /\ LoopCond /\ node_v = 0) =>
              /\ pc' = "error"
              /\ exc' = "ZeroDivisionError"
              /\ exit_status' = 1
              /\ outfile' = <<>>
              /\ log' = log /\ node_v' = node_v ]_vars

\* C5 witness: the run died on the division with samples already recorded.
C5_Witness ==
    /\ pc = "error" /\ exc = "ZeroDivisionError"
    /\ NonNegativeConfig
    /\ Len(log) >= 2
    /\ node_v = 0
    /\ outfile = <<>>

\* C6 (as claimed): the capacitor charge is non-negative in every state of the
\* run, the initial state taken from q0_c included.
C6_ChargeNonNegative ==
    DiscrBound => qt_c >= 0

\* C7: after initialization and at the end of every step, a node voltage below
\* v_thresh means the effective load power is zero.
C7_LoadCutoff ==
    VoltBound => (node_v < v_thresh => p_mode_w = 0)

\* C7 witness: the last step began with the load off at a voltage >= voc, so it
\* re-enabled the load, solved with the load (discriminant >= 0, no recovery),
\* got less than v_thresh, and ended with the load off.
C7_Witness ==
    /\ pc = "loop" /\ Len(log) >= 3
    /\ p_on_w > 0 /\ v_thresh <= voc
    /\ SampleV(2) < v_thresh
    /\ SampleV(1) >= voc
    /\ Mul(4 * p_on_w, r_esr) > 0
    /\ node_discr = node_discrim(qt_c, c_f, 0, r_esr, p_on_w)
    /\ node_v < v_thresh
    /\ p_mode_w = 0

\* C8: after initialization and at the end of every step, a node voltage at or
\* above voc means the source current is zero (so the next charge update adds
\* no source current).
C8_SourceDisconnect ==
    VoltBound => (node_v >= voc => i1_a = 0)

\* C8 witness: the last step solved with the source connected (it began below
\* voc with a nonzero short-circuit current), reached voc, and disconnected.
C8_Witness ==
    /\ pc = "loop" /\ Len(log) >= 2
    /\ isc_a > 0
    /\ 0 <= SampleV(1) /\ SampleV(1) < voc
    /\ node_v >= voc
    /\ i1_a = 0

\* C9: a load that is off at the start of a step that begins below voc is
\* still off at the end of that step, whatever v_thresh is.
C9_Hysteresis ==
    [][ (pc = "loop" /\ pc' = "loop" /\ p_mode_w = 0 /\ node_v < voc)
            => p_mode_w' = 0 ]_vars

\* C9 witness: the load was cut two samples ago, and the last step began and
\* ended inside the band [v_thresh, voc) with the load still off.
C9_Witness ==
    /\ pc = "loop" /\ Len(log) >= 3
    /\ NonNegativeConfig
    /\ p_on_w > 0 /\ 0 < v_thresh /\ v_thresh < voc
    /\ SampleV(2) < v_thresh
    /\ v_thresh <= SampleV(1) /\ SampleV(1) < voc
    /\ v_thresh <= node_v /\ node_v < voc
    /\ p_mode_w = 0

\* C10 (as claimed): in the scenario run every recorded sample, the initial one
\* included, has a node voltage <= voc, and the run completes.
C10_ScenarioBelowVoc ==
    argv = Scenario =>
        /\ \A i \in 1..Len(log) : log[i][2] <= voc
        /\ pc # "error"

\* C10 (amended): in the scenario run the initial sample is above voc
\* (5.455 V against 5.0 V), the first step clamps the charge to zero and
\* records 0 V, the second step fails on the division by that zero, and
\* log.csv is never written.
C10_ScenarioRun ==
    argv = Scenario =>
        /\ pc # "done" /\ outfile = <<>>
        /\ Len(log) <= 2
        /\ Len(log) >= 1 => (log[1][2] > voc /\ log[1][2] = 5455)
        /\ (pc = "loop" /\ Len(log) = 1) => (p_mode_w = p_on_w /\ i1_a = 0)
        /\ Len(log) = 2 => (log[2][2] = 0 /\ qt_c = 0)
        /\ pc = "error" => (exc = "ZeroDivisionError" /\ Len(log) = 2)

\* C10 witness: the scenario run has died on the division after two samples.
C10_Witness ==
    /\ argv = Scenario
    /\ pc = "error" /\ exc = "ZeroDivisionError"
    /\ Len(log) = 2

\* The process has ended: log.csv written, usage printed, or an uncaught
\* exception.
Ended == pc \in {"done", "exit", "error"}

\* ceil(a / b) for b > 0.
Ceil(a, b) == (a + b - 1) \div b

\* A bound on the iterations the loop can still execute, from the elapsed time
\* (the last recorded time is never less than t_s - dt_s).
IterationsLeft == IF t_s - dt_s >= dur_s THEN 0 ELSE Ceil(dur_s - (t_s - dt_s), dt_s)

\* C11: with dt_s > 0 every iteration increases the elapsed time by exactly
\* dt_s and leaves one iteration less to run, the loop is left only once the
\* last recorded time is >= dur_s, and the run never hangs: until it has
\* ended some statement can execute, and the number of samples stays within
\* the bound the duration gives.
C11_LoopTerminates ==
    /\ [][ /\ (pc = "loop" /\ log' # log /\ dt_s > 0) =>
                /\ t_s' = t_s + dt_s
                /\ Len(log') = Len(log) + 1
                /\ IterationsLeft' < IterationsLeft
           /\ (pc = "loop" /\ pc' = "done") => log[Len(log)][1] >= dur_s ]_vars
    /\ [](Ended \/ ENABLED Next)
    /\ []((VoltBound /\ dt_s > 0 /\ dur_s >= 0) =>
              Len(log) <= Ceil(dur_s, dt_s) + 2)

\* C11 witness: the loop was left normally after several iterations.
C11_Witness ==
    /\ pc = "done"
    /\ dt_s > 0
    /\ Len(log) >= 4
    /\ log[Len(log)][1] >= dur_s
    /\ log[Len(log) - 1][1] < dur_s

\* C12: with voc = 0 the run dies with ZeroDivisionError in the short-circuit
\* current computation: nothing has been solved, no sample is recorded and
\* log.csv is not written.
C12_ZeroVocRaises ==
    (Len(argv) = 10 /\ pc # "args" /\ voc = 0) =>
        /\ pc \in {"init", "error"}
        /\ log = <<>>
        /\ outfile = <<>>
        /\ pc = "error" => (exc = "ZeroDivisionError" /\ exit_status = 1)
        /\ isc_a = Unbound /\ node_discr = Unbound /\ node_v = Unbound

\* C12 witness: a run with voc = 0 has died.
C12_Witness ==
    /\ Len(argv) = 10 /\ pc = "error"
    /\ voc = 0
    /\ exc = "ZeroDivisionError"

\* A configuration the specification calls invalid.
InvalidConfig ==
    \/ c_f = 0
    \/ dt_s <= 0
    \/ eff < 0 \/ eff > SCALE
    \/ dur_s < 0

\* C13 (as claimed): an invalid configuration is rejected before the
\* simulation starts: nothing is solved, no step runs, no sample is recorded.
C13_InvalidConfigRejected ==
    (Len(argv) = 10 /\ InvalidConfig) =>
        /\ pc \notin {"loop", "done"}
        /\ log = <<>>
        /\ outfile = <<>>

\* C14 (as claimed): with a number of parameters other than ten the program
\* prints the usage message, exits with a non-zero status, and neither
\* simulates nor writes.
C14_UsageExitsNonZero ==
    (Len(argv) # 10 /\ pc # "args") =>
        /\ pc = "exit"
        /\ Len(stdout) = 1
        /\ exit_status # 0
        /\ log = <<>>
        /\ outfile = <<>>

\* i1_a and p_mode_w are bound (from lines 86-88 on).
ModeBound == VoltBound \/ (pc = "error" /\ voc # 0)

\* C15: the source current is either the short-circuit current or zero, and
\* the effective load power is either the configured load power or zero.
C15_TwoValuedModes ==
    ModeBound =>
        /\ i1_a = isc_a \/ i1_a = 0
        /\ p_mode_w = p_on_w \/ p_mode_w = 0
        /\ isc_a = solar_current(irr_w_m2, sa_m2, eff, voc)

\* C15 witness: after some steps the source is connected with a nonzero
\* current and the load, of nonzero configured power, is off.
C15_Witness ==
    /\ pc = "loop" /\ Len(log) >= 3
    /\ NonNegativeConfig
    /\ isc_a > 0 /\ p_on_w > 0
    /\ i1_a = isc_a
    /\ p_mode_w = 0

\* C16: with q0_c = 0 and p_on_w = 0 (and non-negative short-circuit current
\* and ESR) the sample recorded at time 0 is the short-circuit current times
\* the ESR.
C16_FirstSampleIsIscTimesEsr ==
    (/\ Len(log) >= 1
     /\ q0_c = 0 /\ p_on_w = 0
     /\ isc_a >= 0 /\ r_esr >= 0)
    => (log[1][1] = 0 /\ log[1][2] = Mul(isc_a, r_esr))

\* C16 witness: such a run with a nonzero product has recorded its first
\* sample.
C16_Witness ==
    /\ Len(log) >= 1
    /\ q0_c = 0 /\ p_on_w = 0
    /\ isc_a > 0 /\ r_esr > 0
    /\ log[1][2] > 0

\* The discriminant a step computes first: from the updated charge, the source
\* current chosen from the starting voltage, and the load after re-enable.
StepFirstDiscr ==
    node_discrim(qt_c', c_f, SourceReconnect(node_v), r_esr,
                 LoadReenable(p_mode_w, node_v))

\* C17: in a step whose first discriminant is negative the load is off at the
\* end of the step and the discriminant in use is the one recomputed without
\* load, which is non-negative.
C17_StepRecovery ==
    [][ (pc = "loop" /\ log' # log /\ StepFirstDiscr < 0) =>
            /\ p_mode_w' = 0
            /\ node_discr' >= 0
            /\ node_discr' =
                 node_discrim(qt_c', c_f, SourceReconnect(node_v), r_esr, 0) ]_vars

\* C17 witness: the last step began at or above voc (source off, load on or
\* re-enabled to p_on_w), its discriminant with the load was negative, and it ended
\* with the load off at a voltage the cutoff rule would not have cut.
C17_Witness ==
    /\ pc = "loop" /\ Len(log) >= 2
    /\ NonNegativeConfig
    /\ p_on_w > 0
    /\ log[Len(log) - 1][2] >= voc
    /\ node_discrim(qt_c, c_f, 0, r_esr, p_on_w) < 0
    /\ node_discr >= 0
    /\ node_v >= v_thresh
    /\ p_mode_w = 0

C19_NoChargeGainAboveVoc ==
    [][ (/\ pc = "loop" /\ log' # log
         /\ voc > 0 /\ p_on_w >= 0 /\ dt_s > 0
         /\ node_v >= voc)
        => qt_c' <= qt_c ]_vars

====
